---- MODULE Spec2Model ----
(***************************************************************************)
(* A model of script.js, the to-do list page script: the task array, its   *)
(* copy in localStorage under the key 'tasks', the pending-count label,    *)
(* the rendered list items, and the deferred callbacks (animationend       *)
(* listeners and the clear-all fallback timer) the handlers register.      *)
(***************************************************************************)
EXTENDS Integers, Sequences, FiniteSets, TLC

\* ------------------------------------------------------------------ bounds
\* Longest stored array the page is loaded from.
MaxStored == 1
\* Most tasks the add handler is let to grow the array to.
MaxTasks == 3
\* Most delete listeners waiting for their animationend at once.
MaxPending == 2
\* Most clear-all invocations whose listeners or timer are outstanding.
MaxClears == 1

\* --------------------------------------------------------------- JS values
\* A JavaScript value is a record [t, v]: its type and, for primitives, its
\* content as a sequence of symbols (a string is the sequence of its symbols,
\* " " being white space).
Undefined == [t |-> "undefined", v |-> <<>>]
Null == [t |-> "null", v |-> <<>>]
True == [t |-> "boolean", v |-> <<"true">>]
False == [t |-> "boolean", v |-> <<"false">>]
Num(n) == [t |-> "number", v |-> <<n>>]
Str(s) == [t |-> "string", v |-> s]
\* A plain object or array held as a property value ({} or []).
Object == [t |-> "object", v |-> <<>>]

\* ToBoolean: undefined, null, false, 0, NaN and "" are falsy.
Truthy(x) ==
    CASE x.t = "undefined" -> FALSE
      [] x.t = "null" -> FALSE
      [] x.t = "boolean" -> x = True
      [] x.t = "number" -> x.v \notin {<<"0">>, <<"NaN">>}
      [] x.t = "string" -> x.v # <<>>
      [] OTHER -> TRUE

\* a || b
Or(a, b) == IF Truthy(a) THEN a ELSE b

\* String.prototype.trim: white space dropped from both ends.
RECURSIVE TrimStart(_)
TrimStart(s) ==
    IF s # <<>> /\ Head(s) = " " THEN TrimStart(Tail(s)) ELSE s

RECURSIVE TrimEnd(_)
TrimEnd(s) ==
    IF s # <<>> /\ s[Len(s)] = " " THEN TrimEnd(SubSeq(s, 1, Len(s) - 1)) ELSE s

Trim(s) == TrimEnd(TrimStart(s))

\* --------------------------------------------------------------- JSON text
\* The text of a JSON value, as its literal: [lit, v]. lit "absent" stands
\* for a key the object's text does not hold. A number literal keeps its
\* digits: "1e999" is a literal, not a number.
Absent == [lit |-> "absent", v |-> <<>>]
LitNull == [lit |-> "null", v |-> <<>>]
LitTrue == [lit |-> "true", v |-> <<>>]
LitFalse == [lit |-> "false", v |-> <<>>]
LitNum(d) == [lit |-> "number", v |-> <<d>>]
LitStr(s) == [lit |-> "string", v |-> s]
LitObject == [lit |-> "object", v |-> <<>>]

\* JSON.parse of one literal. A number literal beyond the double range
\* evaluates to Infinity.
ParseLit(l) ==
    CASE l.lit = "absent" -> Undefined
      [] l.lit = "null" -> Null
      [] l.lit = "true" -> True
      [] l.lit = "false" -> False
      [] l.lit = "number" -> IF l.v = <<"1e999">> THEN Num("Infinity") ELSE Num(l.v[1])
      [] l.lit = "string" -> Str(l.v)
      [] l.lit = "object" -> Object

\* JSON.stringify of one property value: undefined drops the key, a
\* non-finite number is written null.
StringifyValue(x) ==
    CASE x.t = "undefined" -> Absent
      [] x.t = "null" -> LitNull
      [] x.t = "boolean" -> IF x = True THEN LitTrue ELSE LitFalse
      [] x.t = "number" -> IF x.v[1] \in {"Infinity", "NaN"} THEN LitNull ELSE LitNum(x.v[1])
      [] x.t = "string" -> LitStr(x.v)
      [] x.t = "object" -> LitObject

\* One element of a stored array: null, a primitive, or an object with the
\* keys the page reads.
ElemNull == [k |-> "null", text |-> Absent, date |-> Absent, status |-> Absent, completed |-> Absent]
ElemPrim == [k |-> "primitive", text |-> Absent, date |-> Absent, status |-> Absent, completed |-> Absent]
ElemObj(text, date, status, completed) ==
    [k |-> "object", text |-> text, date |-> date, status |-> status, completed |-> completed]

\* What localStorage.getItem('tasks') returns: null (no item), or a string
\* that is empty, not JSON, JSON that is no array, or a JSON array.
NoItem == [kind |-> "null", elems |-> <<>>]
EmptyString == [kind |-> "empty", elems |-> <<>>]
NotJSON == [kind |-> "garbage", elems |-> <<>>]
NotArray == [kind |-> "scalar", elems |-> <<>>]
ArrayText(elems) == [kind |-> "array", elems |-> elems]

\* ------------------------------------------------------------------- tasks
UNDONE == Str(<<"undone">>)
INPROGRESS == Str(<<"inprogress">>)
COMPLETED == Str(<<"completed">>)

\* ['undone', 'inprogress', 'completed']
ValidStatuses == {UNDONE, INPROGRESS, COMPLETED}

Task(text, date, status) == [text |-> text, date |-> date, status |-> status]

\* Sanitize keeping whatever truthy status the record holds.
SanitizeKeepsStatus(e) ==
    Task(Or(ParseLit(e.text), Str(<<"Untitled">>)),
         Or(ParseLit(e.date), Str(<<>>)),
         Or(ParseLit(e.status),
            IF Truthy(ParseLit(e.completed)) THEN COMPLETED ELSE UNDONE))

\* Sanitize that sends every status that is not valid to undone.
SanitizeIgnoresLegacy(e) ==
    Task(Or(ParseLit(e.text), Str(<<"Untitled">>)),
         Or(ParseLit(e.date), Str(<<>>)),
         IF ParseLit(e.status) \in ValidStatuses THEN ParseLit(e.status) ELSE UNDONE)

\* The arrow function of loadTasks' map: one stored element to a task.
Sanitize(e) ==
    Task(Or(ParseLit(e.text), Str(<<"Untitled">>)),
         Or(ParseLit(e.date), Str(<<>>)),
         IF ParseLit(e.status) \in ValidStatuses
         THEN ParseLit(e.status)
         ELSE IF Truthy(ParseLit(e.completed)) THEN COMPLETED ELSE UNDONE)

\* The try block of loadTasks for the value getItem('tasks') gives: the
\* value it returns, or the exception it throws. A falsy value reads as [];
\* text that is not JSON makes JSON.parse throw; a null element makes the
\* map callback throw.
TryLoad(stored) ==
    CASE stored.kind \in {"null", "empty"} -> [value |-> <<>>, thrown |-> "none"]
      [] stored.kind = "garbage" -> [value |-> <<>>, thrown |-> "SyntaxError"]
      [] stored.kind = "scalar" -> [value |-> <<>>, thrown |-> "none"]
      [] stored.kind = "array" ->
            IF \E i \in 1..Len(stored.elems) : stored.elems[i].k = "null"
            THEN [value |-> <<>>, thrown |-> "TypeError"]
            ELSE [value |-> [i \in 1..Len(stored.elems) |-> Sanitize(stored.elems[i])],
                  thrown |-> "none"]

\* loadTasks with no catch around its body.
LoadOutcomeNoCatch(stored) == TryLoad(stored)

\* loadTasks() as its caller sees it: the catch returns [].
LoadOutcome(stored) ==
    IF TryLoad(stored).thrown # "none"
    THEN [value |-> <<>>, thrown |-> "none"]
    ELSE TryLoad(stored)

\* loadTasks(): the array it returns.
loadTasks(stored) == LoadOutcome(stored).value

\* JSON.stringify(tasks)
JSONstringify(ts) ==
    ArrayText([i \in 1..Len(ts) |->
        ElemObj(StringifyValue(ts[i].text), StringifyValue(ts[i].date),
                StringifyValue(ts[i].status), Absent)])

\* tasks.filter(task => task.status !== 'completed').length
RECURSIVE PendingCount(_)
PendingCount(ts) ==
    IF ts = <<>> THEN 0
    ELSE (IF Head(ts).status # COMPLETED THEN 1 ELSE 0) + PendingCount(Tail(ts))

\* The label with the plural chosen by count > 1.
PendingTextPluralAboveOne(count) ==
    <<"You have ", count, " pending task", IF count > 1 THEN "s" ELSE "">>

\* The template literal of updatePendingCount, piece by piece.
PendingText(count) ==
    <<"You have ", count, " pending task", IF count # 1 THEN "s" ELSE "">>

\* ------------------------------------------------------------------- state
VARIABLES
    tasks,          \* the global array
    storage,        \* localStorage's value under 'tasks'
    label,          \* pendingCount.textContent
    items,          \* the list items of taskList: each one's dataset.index
    popup,          \* whether popupOverlay carries the class 'show'
    error,          \* the exception the last handler let escape, or "none"
    pendingDeletes, \* indices captured by the delete listeners not yet run
    clears,         \* outstanding clear-all closures: [count, total, timer]
    last            \* the last handler run: [op, arg, input, date, done]

vars == <<tasks, storage, label, items, popup, error, pendingDeletes, clears, last>>

\* The part of the state the page's functions read and write, as one value
\* that a handler's calls pass along in order.
Page == [tasks |-> tasks, storage |-> storage, label |-> label,
         items |-> items, popup |-> popup, error |-> "none"]

Becomes(p) ==
    /\ tasks' = p.tasks
    /\ storage' = p.storage
    /\ label' = p.label
    /\ items' = p.items
    /\ popup' = p.popup
    /\ error' = p.error

\* tasks[index] (JavaScript counts from 0)
InRange(ts, index) == index >= 0 /\ index < Len(ts)
At(ts, index) == ts[index + 1]

updatePendingCount(p) ==
    [p EXCEPT !.label = PendingText(PendingCount(p.tasks))]

saveTasks(p) ==
    updatePendingCount([p EXCEPT !.storage = JSONstringify(p.tasks)])

\* renderTasks(): one li per task, dataset.index its position; then the label.
renderTasks(p) ==
    updatePendingCount([p EXCEPT !.items = [i \in 1..Len(p.tasks) |-> i - 1]])

\* A rotation that sends inprogress back to undone.
NextStatusToggle(current) ==
    IF current = UNDONE THEN INPROGRESS
    ELSE IF current = INPROGRESS THEN UNDONE
    ELSE UNDONE

\* The rotation of cycleStatus (its local 'next').
NextStatus(current) ==
    IF current = UNDONE THEN INPROGRESS
    ELSE IF current = INPROGRESS THEN COMPLETED
    ELSE IF current = COMPLETED THEN UNDONE
    ELSE UNDONE

\* cycleStatus(index): reading .status of tasks[index] throws a TypeError
\* when tasks[index] is undefined.
cycleStatus(p, index) ==
    IF ~InRange(p.tasks, index)
    THEN [p EXCEPT !.error = "TypeError"]
    ELSE renderTasks(saveTasks(
            [p EXCEPT !.tasks[index + 1].status = NextStatus(At(p.tasks, index).status)]))

\* tasks.splice(index): with no delete count, everything from start on goes.
SpliceToEnd(ts, index) ==
    LET len == Len(ts)
        start == IF index < 0
                 THEN (IF len + index > 0 THEN len + index ELSE 0)
                 ELSE (IF index < len THEN index ELSE len)
    IN SubSeq(ts, 1, start)

\* tasks.splice(index, 1): a negative start counts from the end, a start
\* past the end removes nothing.
Splice(ts, index) ==
    LET len == Len(ts)
        start == IF index < 0
                 THEN (IF len + index > 0 THEN len + index ELSE 0)
                 ELSE (IF index < len THEN index ELSE len)
    IN SubSeq(ts, 1, start) \o SubSeq(ts, start + 2, len)

\* deleteTask without its bounds check.
deleteTaskUnchecked(p, index) ==
    renderTasks(saveTasks([p EXCEPT !.tasks = Splice(p.tasks, index)]))

\* deleteTask that takes an index past the end for the last task.
deleteTaskClamped(p, index) ==
    IF index >= 0 /\ Len(p.tasks) > 0
    THEN renderTasks(saveTasks([p EXCEPT !.tasks =
            Splice(p.tasks, IF index < Len(p.tasks) THEN index ELSE Len(p.tasks) - 1)]))
    ELSE p

\* deleteTask that saves but leaves the rendered list as it was.
deleteTaskNoRender(p, index) ==
    IF index >= 0 /\ index < Len(p.tasks)
    THEN saveTasks([p EXCEPT !.tasks = Splice(p.tasks, index)])
    ELSE p

deleteTask(p, index) ==
    IF index >= 0 /\ index < Len(p.tasks)
    THEN renderTasks(saveTasks([p EXCEPT !.tasks = Splice(p.tasks, index)]))
    ELSE p

showPopup(p) == [p EXCEPT !.popup = TRUE]
hidePopup(p) == [p EXCEPT !.popup = FALSE]

\* addTask rejecting an empty text only.
addTaskTextOnly(p, inputValue, dateValue) ==
    LET text == Str(Trim(inputValue))
        date == Str(dateValue)
    IN IF ~Truthy(text)
       THEN showPopup(p)
       ELSE renderTasks(saveTasks(
               [p EXCEPT !.tasks = Append(p.tasks, Task(text, date, UNDONE))]))

\* addTask reading the text field without trim().
addTaskNoTrim(p, inputValue, dateValue) ==
    LET text == Str(inputValue)
        date == Str(dateValue)
    IN IF ~Truthy(text) \/ ~Truthy(date)
       THEN showPopup(p)
       ELSE renderTasks(saveTasks(
               [p EXCEPT !.tasks = Append(p.tasks, Task(text, date, UNDONE))]))

\* addTask() with the two fields' values at the time of the call.
addTask(p, inputValue, dateValue) ==
    LET text == Str(Trim(inputValue))
        date == Str(dateValue)
    IN IF ~Truthy(text) \/ ~Truthy(date)
       THEN showPopup(p)
       ELSE renderTasks(saveTasks(
               [p EXCEPT !.tasks = Append(p.tasks, Task(text, date, UNDONE))]))

\* tasks = []; saveTasks(); renderTasks();
Wipe(p) == renderTasks(saveTasks([p EXCEPT !.tasks = <<>>]))

\* A listener that wipes at the first animationend it counts.
countReachedAtFirst(count, total) == count >= 1

\* if (count >= total), in the animationend listener clearAllTasks registers.
countReached(count, total) == count >= total

\* A fallback timer whose callback leaves the tasks alone.
clearTimeoutIdle(p) == p

\* The callback clearAllTasks hands to setTimeout.
clearTimeout(p) == IF Len(p.tasks) > 0 THEN Wipe(p) ELSE p

\* ------------------------------------------------------------------ inputs
\* What the page may find stored: elements in the current shape, in the
\* legacy {text, completed} shape, with keys missing or of another type,
\* with a number literal beyond the double range, null, and a primitive.
DateValue == <<"2026-01-01T10:00">>

StoredElems ==
    { ElemObj(LitStr(<<"a">>), LitStr(DateValue), LitStr(<<"inprogress">>), Absent),
      ElemObj(LitStr(<<"x">>), Absent, Absent, LitTrue),
      ElemObj(Absent, Absent, LitStr(<<"bogus">>), LitFalse),
      ElemObj(LitNum("1e999"), LitNum("0"), LitStr(<<"completed">>), Absent),
      ElemObj(LitStr(<<" ">>), LitObject, LitNull, LitNum("7")),
      ElemNull,
      ElemPrim }

SeqsUpTo(S, n) == UNION { [1..k -> S] : k \in 0..n }

StoredUpTo(n) ==
    {NoItem, EmptyString, NotJSON, NotArray}
        \cup { ArrayText(es) : es \in SeqsUpTo(StoredElems, n) }

StoredContents == StoredUpTo(MaxStored)

\* What the user may have typed into the two fields when add is triggered.
TextInputs == { <<>>, <<" ">>, <<" ", "b", " ">> }
DateInputs == { <<>>, DateValue }

\* -------------------------------------------------------------------- Init
\* The state once the script has run: tasks = loadTasks() (line 12) and the
\* first renderTasks() (line 265); no listener has been registered yet and
\* the popup does not carry 'show'.
InitFrom(contents) ==
    \E stored \in contents :
        LET p == renderTasks([tasks |-> loadTasks(stored), storage |-> stored,
                              label |-> <<>>, items |-> <<>>,
                              popup |-> FALSE,
                              error |-> LoadOutcome(stored).thrown])
        IN /\ tasks = p.tasks
           /\ storage = p.storage
           /\ label = p.label
           /\ items = p.items
           /\ popup = p.popup
           /\ error = p.error
           /\ pendingDeletes = <<>>
           /\ clears = <<>>
           /\ last = [op |-> "loadTasks", arg |-> -1, input |-> <<>>, date |-> <<>>,
                       done |-> FALSE]

Init == InitFrom(StoredContents)

\* ----------------------------------------------------------------- actions
Without(s, k) == SubSeq(s, 1, k - 1) \o SubSeq(s, k + 1, Len(s))

\* The record kept of a handler that has run: its name, the index it was
\* given (-1 when it takes none), the two fields' values it read (empty when
\* it reads none), and whether it changed the task array.
Ran(op, arg, input, date, p) ==
    last' = [op |-> op, arg |-> arg, input |-> input, date |-> date,
             done |-> p.tasks # tasks]

\* The add button's click (or Enter in the text field): addTask(), with
\* what the two fields hold at that moment. The fields themselves, which a
\* successful add empties, are not part of the state.
AddClick(inputValue, dateValue) ==
    /\ Len(tasks) < MaxTasks
    /\ LET p == addTask(Page, inputValue, dateValue)
       IN Becomes(p) /\ Ran("addTask", -1, inputValue, dateValue, p)
    /\ UNCHANGED <<pendingDeletes, clears>>

\* A click on the task-info or status button of the list item li: the
\* delegated handler reads li.dataset.index and calls cycleStatus.
StatusClick(li) ==
    /\ LET p == cycleStatus(Page, items[li])
       IN Becomes(p) /\ Ran("cycleStatus", items[li], <<>>, <<>>, p)
    /\ UNCHANGED <<pendingDeletes, clears>>

\* An animationend listener of handleDeleteAnimation: the index it
\* captured, and, for the record, the text of the task that the clicked item
\* showed.
Listener(index) ==
    [index |-> index,
     clicked |-> IF InRange(tasks, index) THEN At(tasks, index).text ELSE Undefined]

\* handleDeleteAnimation that registers no second listener for an index.
handleDeleteAnimationOnce(listeners, index) ==
    IF \E k \in 1..Len(listeners) : listeners[k].index = index
    THEN listeners
    ELSE Append(listeners, Listener(index))

\* handleDeleteAnimation(li, index): one more listener, whatever is
\* already registered.
handleDeleteAnimation(listeners, index) == Append(listeners, Listener(index))

\* A click on the delete button of the list item li: handleDeleteAnimation
\* registers an animationend listener that holds the index.
DeleteClick(li) ==
    /\ Len(pendingDeletes) < MaxPending
    /\ pendingDeletes' = handleDeleteAnimation(pendingDeletes, items[li])
    /\ Becomes(Page) /\ Ran("handleDeleteAnimation", items[li], <<>>, <<>>, Page)
    /\ UNCHANGED clears

\* The animationend listener registered k-th among those waiting runs:
\* deleteTask(index) with the index it captured. A listener stays able to
\* run after a render has replaced its item: an animationend queued in the
\* same frame is still delivered.
DeleteAnimationEnd(k) ==
    /\ LET p == deleteTask(Page, pendingDeletes[k].index)
       IN Becomes(p) /\ Ran("deleteTask", pendingDeletes[k].index, <<>>, <<>>, p)
    /\ pendingDeletes' = Without(pendingDeletes, k)
    /\ UNCHANGED clears

\* The clear button's click: clearAllTasks() returns when no item is
\* rendered, else gives every item a listener sharing count and total and
\* starts the fallback timer.
ClearClick ==
    /\ Len(clears) < MaxClears
    /\ clears' = IF Len(items) = 0 THEN clears
                 ELSE Append(clears, [count |-> 0, total |-> Len(items), timer |-> TRUE])
    /\ Becomes(Page) /\ Ran("clearAllTasks", -1, <<>>, <<>>, Page)
    /\ UNCHANGED pendingDeletes

\* A clear-all that forgets its timer once its listeners have wiped.
OutstandingCancelsTimer(cs) == SelectSeq(cs, LAMBDA c : c.count < c.total)

\* A closure is dropped once its listeners have all run and its timer fired.
Outstanding(cs) == SelectSeq(cs, LAMBDA c : c.count < c.total \/ c.timer)

\* One of the c-th clear-all's animationend listeners runs: count++, and
\* the wipe when count >= total.
ClearAnimationEnd(c) ==
    /\ clears[c].count < clears[c].total
    /\ LET count == clears[c].count + 1
           p == IF countReached(count, clears[c].total) THEN Wipe(Page) ELSE Page
       IN /\ clears' = Outstanding([clears EXCEPT ![c].count = count])
          /\ Becomes(p) /\ Ran("clearAnimationEnd", -1, <<>>, <<>>, p)
    /\ UNCHANGED pendingDeletes

\* The c-th clear-all's fallback timer fires.
ClearTimeout(c) ==
    /\ clears[c].timer
    /\ clears' = Outstanding([clears EXCEPT ![c].timer = FALSE])
    /\ LET p == clearTimeout(Page)
       IN Becomes(p) /\ Ran("clearTimeout", -1, <<>>, <<>>, p)
    /\ UNCHANGED pendingDeletes

\* The popup's close button, or a click on the overlay itself.
ClosePopup ==
    /\ popup
    /\ Becomes(hidePopup(Page)) /\ Ran("hidePopup", -1, <<>>, <<>>, Page)
    /\ UNCHANGED <<pendingDeletes, clears>>

Next ==
    \/ \E inputValue \in TextInputs, dateValue \in DateInputs : AddClick(inputValue, dateValue)
    \/ \E li \in 1..Len(items) : StatusClick(li)
    \/ \E li \in 1..Len(items) : DeleteClick(li)
    \/ \E k \in 1..Len(pendingDeletes) : DeleteAnimationEnd(k)
    \/ ClearClick
    \/ \E c \in 1..Len(clears) : ClearAnimationEnd(c)
    \/ \E c \in 1..Len(clears) : ClearTimeout(c)
    \/ ClosePopup

Spec == Init /\ [][Next]_vars

\* The page opened with nothing stored, and with a timer that works: a
\* callback handed to setTimeout is run in the end. No fairness is asked of
\* animationend, which a browser may never deliver.
FairInit == InitFrom({NoItem})

FairSpec == FairInit /\ [][Next]_vars /\ WF_vars(\E c \in 1..Len(clears) : ClearTimeout(c))

\* ------------------------------------------------- the functions, one by one
\* The page's functions called directly, as a test of them would: any
\* index, not only the ones a rendered item carries.
Indices == -1..MaxTasks

CallCycleStatus(index) ==
    /\ LET p == cycleStatus(Page, index)
       IN Becomes(p) /\ Ran("cycleStatus", index, <<>>, <<>>, p)
    /\ UNCHANGED <<pendingDeletes, clears>>

CallDeleteTask(index) ==
    /\ LET p == deleteTask(Page, index)
       IN Becomes(p) /\ Ran("deleteTask", index, <<>>, <<>>, p)
    /\ UNCHANGED <<pendingDeletes, clears>>

CallAddTask(inputValue, dateValue) ==
    /\ LET p == addTask(Page, inputValue, dateValue)
       IN /\ Len(p.tasks) <= MaxTasks
          /\ Becomes(p) /\ Ran("addTask", -1, inputValue, dateValue, p)
    /\ UNCHANGED <<pendingDeletes, clears>>

\* saveTasks() and then tasks = loadTasks(), as a reload of the page does
\* after a save.
CallSaveLoad ==
    /\ LET saved == saveTasks(Page)
           p == [saved EXCEPT !.tasks = loadTasks(saved.storage)]
       IN Becomes(p) /\ Ran("saveLoad", -1, <<>>, <<>>, p)
    /\ UNCHANGED <<pendingDeletes, clears>>

ApiNext ==
    \/ \E index \in Indices : CallCycleStatus(index)
    \/ \E index \in Indices : CallDeleteTask(index)
    \/ \E inputValue \in TextInputs, dateValue \in DateInputs : CallAddTask(inputValue, dateValue)
    \/ CallSaveLoad

ApiSpec == Init /\ [][ApiNext]_vars

\* ================================================================== claims
StatusWords == {<<"undone">>, <<"inprogress">>, <<"completed">>}

\* C1: in every reachable state the status of every task is one of undone,
\* inprogress, completed.
C1_StatusValid ==
    \A i \in 1..Len(tasks) :
        tasks[i].status.t = "string" /\ tasks[i].status.v \in StatusWords

\* A record stored with a status that is none of the three has been loaded
\* and its status then cycled.
C1_Witness ==
    /\ last.op = "cycleStatus" /\ last.done
    /\ At(tasks, last.arg).text = Str(<<"Untitled">>)

\* The rotation as the specification words it.
Rotation(status) ==
    CASE status = "undone" -> "inprogress"
      [] status = "inprogress" -> "completed"
      [] status = "completed" -> "undone"

StatusAfter(p, index) == At(p.tasks, index).status.v[1]

\* C2: on an in-range index cycleStatus follows undone -> inprogress ->
\* completed -> undone, and three applications in a row on one index give
\* the task its original status back.
C2_CycleOfThree ==
    \A index \in 0..(Len(tasks) - 1) :
        LET once == cycleStatus(Page, index)
            twice == cycleStatus(once, index)
            thrice == cycleStatus(twice, index)
        IN /\ StatusAfter(once, index) = Rotation(StatusAfter(Page, index))
           /\ StatusAfter(twice, index) = Rotation(StatusAfter(once, index))
           /\ StatusAfter(thrice, index) = Rotation(StatusAfter(twice, index))
           /\ thrice.tasks = tasks

\* cycleStatus has just taken a task from completed back to undone.
C2_Witness ==
    /\ last.op = "cycleStatus" /\ last.done
    /\ At(tasks, last.arg).status = UNDONE

\* C3: cycleStatus with an index out of bounds changes neither the sequence
\* nor the persisted value and raises no error.
C3_CycleOutOfBoundsSilent ==
    [][(last'.op = "cycleStatus" /\ ~InRange(tasks, last'.arg))
        => (tasks' = tasks /\ storage' = storage /\ error' = "none")]_vars

\* C4: deleteTask with index < 0 or index >= length (-1 and length among
\* them) changes neither the sequence nor the persisted value and raises no
\* error.
C4_DeleteOutOfBoundsNoOp ==
    [][(last'.op = "deleteTask" /\ (last'.arg < 0 \/ last'.arg >= Len(tasks)))
        => (tasks' = tasks /\ storage' = storage /\ error' = "none")]_vars

\* deleteTask(-1) has run on a sequence that is not empty and whose stored
\* text a save would have rewritten.
C4_Witness ==
    /\ last.op = "deleteTask" /\ last.arg = -1
    /\ tasks # <<>>
    /\ storage # JSONstringify(tasks)

\* C5: deleteTask with 0 <= index < length removes exactly the element at
\* that position: the length drops by one and every other task keeps its
\* text, date, status and relative order.
C5_DeleteRemovesOne ==
    [][(last'.op = "deleteTask" /\ InRange(tasks, last'.arg))
        => /\ Len(tasks') = Len(tasks) - 1
           /\ \A j \in 1..Len(tasks) :
                /\ j < last'.arg + 1 => tasks'[j] = tasks[j]
                /\ j > last'.arg + 1 => tasks'[j - 1] = tasks[j]]_vars

\* A delete has removed a task that had a task before it and one after it.
C5_Witness ==
    /\ last.op = "deleteTask" /\ last.done
    /\ last.arg >= 1 /\ last.arg < Len(tasks)

\* C6: an add whose text is empty after trimming, or whose date is empty,
\* changes neither the sequence nor the persisted value and shows the
\* validation popup.
C6_AddRejected ==
    [][(last'.op = "addTask" /\ (Trim(last'.input) = <<>> \/ last'.date = <<>>))
        => (tasks' = tasks /\ storage' = storage /\ popup')]_vars

\* An add with a text and no date has been rejected.
C6_Witness ==
    /\ last.op = "addTask" /\ Trim(last.input) # <<>> /\ last.date = <<>>
    /\ popup

\* C7: an add with a text that is not empty after trimming and a date that
\* is not empty appends exactly one task, with the trimmed text, the date
\* and status undone, and leaves every earlier task as it was.
C7_AddAppends ==
    [][(last'.op = "addTask" /\ Trim(last'.input) # <<>> /\ last'.date # <<>>)
        => /\ Len(tasks') = Len(tasks) + 1
           /\ tasks'[Len(tasks')] = [text |-> Str(Trim(last'.input)),
                                     date |-> Str(last'.date),
                                     status |-> Str(<<"undone">>)]
           /\ \A j \in 1..Len(tasks) : tasks'[j] = tasks[j]]_vars

\* A text typed with white space around it has been added after other tasks.
C7_Witness ==
    /\ last.op = "addTask" /\ last.done
    /\ last.input # Trim(last.input)
    /\ Len(tasks) >= 2

\* The number of tasks whose status is not completed.
Pending == Cardinality({i \in 1..Len(tasks) : tasks[i].status.v # <<"completed">>})

\* C8: after the initial render and after every handler, the label reads
\* "You have N pending task", followed by "s" exactly when N is not 1, N
\* being the number of tasks whose status is not completed.
C8_PendingLabel ==
    /\ Len(label) = 4
    /\ label[1] = "You have " /\ label[2] = Pending /\ label[3] = " pending task"
    /\ (Pending = 1 => label[4] = "")
    /\ (Pending # 1 => label[4] = "s")

\* After a handler changed the array, exactly one of several tasks is pending.
C8_Witness ==
    /\ last.done
    /\ Len(tasks) >= 2 /\ Pending = 1
    /\ label = <<"You have ", 1, " pending task", "">>

\* C9: between handlers, loading from the persisted value gives the
\* sequence held in memory.
C9_StorageMirrorsTasks == loadTasks(storage) = tasks

\* C10: saving a sequence with saveTasks and loading it with loadTasks
\* gives an equal sequence.
C10_RoundTrip ==
    [][last'.op = "saveLoad" => tasks' = tasks]_vars

\* Whether the literal of a stored key reads as a truthy value.
LitTruthy(l) ==
    \/ l.lit \in {"true", "object"}
    \/ l.lit = "number" /\ l.v # <<"0">>
    \/ l.lit = "string" /\ l.v # <<>>

LitValidStatus(l) == l.lit = "string" /\ l.v \in StatusWords

\* The page has just been loaded from a stored array with no null element.
Loaded ==
    /\ last.op = "loadTasks"
    /\ storage.kind = "array"
    /\ \A i \in 1..Len(storage.elems) : storage.elems[i].k # "null"

\* What both readings of C11 agree on: one task per stored record, a valid
\* status kept, a missing date read as "", a missing text as "Untitled".
NormalizedBut(completedFlag(_)) ==
    /\ Len(tasks) = Len(storage.elems)
    /\ \A i \in 1..Len(tasks) :
        LET e == storage.elems[i]
        IN /\ tasks[i].status.t = "string"
           /\ tasks[i].status.v =
                IF LitValidStatus(e.status) THEN e.status.v
                ELSE IF completedFlag(e.completed) THEN <<"completed">>
                ELSE <<"undone">>
           /\ (e.date = Absent => tasks[i].date = Str(<<>>))
           /\ (e.text = Absent => tasks[i].text = Str(<<"Untitled">>))
           /\ (e = ElemObj(LitStr(<<"x">>), Absent, Absent, LitTrue)
                => tasks[i] = [text |-> Str(<<"x">>), date |-> Str(<<>>),
                               status |-> Str(<<"completed">>)])

C12_LoadNeverFails ==
    last.op = "loadTasks"
        => /\ error = "none"
           /\ storage.kind \in {"null", "empty", "garbage", "scalar"} => tasks = <<>>

\* The page has been loaded from text that is not JSON.
C12_Witness ==
    last.op = "loadTasks" /\ storage.kind = "garbage" /\ tasks = <<>>

\* C13: in every reachable state every task's text is non-empty after
\* trimming.
C13_TextNonEmpty ==
    \A i \in 1..Len(tasks) :
        tasks[i].text.t = "string" => Trim(tasks[i].text.v) # <<>>

\* C14: a clear-all changes neither tasks nor the stored value when it is
\* invoked, nor when one of its listeners counts an animationend that is
\* not the last of its n: the only listener step that changes them is the
\* one whose count reaches the total.
C14_ClearWaitsForAll ==
    [][(last'.op \in {"clearAllTasks", "clearAnimationEnd"}
            /\ (tasks' # tasks \/ storage' # storage))
        => /\ last'.op = "clearAnimationEnd"
           /\ tasks' = <<>>
           /\ \E c \in 1..Len(clears) :
                /\ clears[c].count + 1 = clears[c].total
                /\ \/ Len(clears') < Len(clears)
                   \/ clears'[c].count = clears[c].total]_vars

\* A listener of a clear-all on several items has counted, others have
\* not, the timer is still to fire, and the tasks are all there.
C14_Witness ==
    /\ last.op = "clearAnimationEnd"
    /\ ~last.done
    /\ tasks # <<>>
    /\ \E c \in 1..Len(clears) :
        /\ clears[c].count >= 1
        /\ clears[c].count < clears[c].total
        /\ clears[c].total = Len(tasks)
        /\ clears[c].timer

\* C15: whenever clear-all has been invoked on a non-empty list, tasks and
\* the stored value become empty in the end, with a timer that fires, even
\* if no animationend is ever delivered.
C15_ClearEventuallyEmpties ==
    (last.op = "clearAllTasks" /\ tasks # <<>>)
        ~> (tasks = <<>> /\ storage = JSONstringify(<<>>))

\* The fallback timer has wiped a list of which no listener had counted an
\* animationend.
C15_Witness ==
    /\ last.op = "clearTimeout"
    /\ last.done
    /\ tasks = <<>>
    /\ storage = JSONstringify(<<>>)
    /\ \E c \in 1..Len(clears) : clears[c].count = 0 /\ ~clears[c].timer

\* The clear-all timers that have not fired yet.
Timers(cs) == Len(SelectSeq(cs, LAMBDA c : c.timer))

\* C20: a clear-all's timer goes away only by firing, and when it fires
\* tasks and the stored value are empty afterwards, whatever was added
\* since the clear-all was invoked.
C20_TimerWipesLateTasks ==
    [][/\ Timers(clears') < Timers(clears) => last'.op = "clearTimeout"
       /\ last'.op = "clearTimeout"
            => (tasks' = <<>> /\ storage' = JSONstringify(<<>>))]_vars

\* The timer has wiped tasks after the listeners of its clear-all had all
\* run, and so had wiped before: what it removed was added after that.
C20_Witness ==
    /\ last.op = "clearTimeout"
    /\ last.done
    /\ tasks = <<>>
    /\ clears = <<>>

\* C16: the task a delete callback removes is the task whose delete button
\* was clicked, never another: it has the text the clicked item showed.
C16_DeleteRemovesClicked ==
    [][(last'.op = "deleteTask" /\ last'.done)
        => \E k \in 1..Len(pendingDeletes) :
            /\ pendingDeletes' = Without(pendingDeletes, k)
            /\ pendingDeletes[k].index = last'.arg
            /\ At(tasks, last'.arg).text = pendingDeletes[k].clicked]_vars

\* deleteTask(i) and then deleteTask(j) on the page as it is.
DeleteBoth(i, j) == deleteTask(deleteTask(Page, i), j).tasks

\* ts without the tasks at the (0-based) positions of the set gone.
Except(ts, gone) ==
    LET Kept(n) == Cardinality({m \in 1..n : m - 1 \notin gone})
        Pos(r) == CHOOSE n \in 1..Len(ts) : n - 1 \notin gone /\ Kept(n) = r
    IN [r \in 1..Kept(Len(ts)) |-> ts[Pos(r)]]

\* C17: with deletions pending at the captured indices i < j, run in that
\* order, the first removes the task at i and the second removes the task
\* first at j + 1 when there is one, and nothing otherwise; of three tasks
\* with 1 and 2 pending, the first and third are left.
C17_IndexDrift ==
    (/\ Len(pendingDeletes) = 2
     /\ pendingDeletes[1].index < pendingDeletes[2].index
     /\ InRange(tasks, pendingDeletes[2].index))
        => LET i == pendingDeletes[1].index
               j == pendingDeletes[2].index
           IN /\ DeleteBoth(i, j) =
                    IF j + 1 < Len(tasks) THEN Except(tasks, {i, j + 1})
                    ELSE Except(tasks, {i})
              /\ (Len(tasks) = 3 /\ i = 1 /\ j = 2)
                    => DeleteBoth(i, j) = <<tasks[1], tasks[3]>>

\* Three tasks, the second and then the third clicked for deletion, no
\* callback run yet.
C17_Witness ==
    /\ Len(tasks) = 3
    /\ Len(pendingDeletes) = 2
    /\ pendingDeletes[1].index = 1
    /\ pendingDeletes[2].index = 2

\* C18: the rendered items carry exactly the indices 0..length-1 of tasks,
\* so a status click never hands cycleStatus an index out of bounds.
C18_RenderedIndicesCurrent ==
    /\ items = [i \in 1..Len(tasks) |-> i - 1]
    /\ last.op = "cycleStatus" => (InRange(tasks, last.arg) /\ error = "none")

\* A status click on the list a deletion has shortened, while a delete
\* listener still holds an index that is past its end.
C18_Witness ==
    /\ last.op = "cycleStatus"
    /\ last.done
    /\ last.arg = Len(tasks) - 1
    /\ \E k \in 1..Len(pendingDeletes) : pendingDeletes[k].index >= Len(tasks)

\* deleteTask with the index of each listener in turn.
RECURSIVE RunAll(_, _)
RunAll(p, listeners) ==
    IF listeners = <<>> THEN p
    ELSE RunAll(deleteTask(p, Head(listeners).index), Tail(listeners))

\* The listeners waiting all hold the index of the one item clicked.
SameItem ==
    /\ Len(pendingDeletes) >= 2
    /\ \A k \in 1..Len(pendingDeletes) : pendingDeletes[k].index = pendingDeletes[1].index
    /\ InRange(tasks, pendingDeletes[1].index)

\* C19: every delete click registers one more listener, also on an item
\* that has one; and k listeners of one item at index i, run one after the
\* other, remove the tasks at i .. i+k-1 as far as there are any.
C19_RepeatedClicks ==
    [][/\ last'.op = "handleDeleteAnimation"
            => /\ Len(pendingDeletes') = Len(pendingDeletes) + 1
               /\ pendingDeletes'[Len(pendingDeletes')].index = last'.arg
       /\ SameItem
            => RunAll(Page, pendingDeletes).tasks =
                    Except(tasks, pendingDeletes[1].index ..
                                  pendingDeletes[1].index + Len(pendingDeletes) - 1)]_vars

\* Two clicks on the delete button of one item with a task after it.
C19_Witness ==
    /\ SameItem
    /\ last.op = "handleDeleteAnimation"
    /\ pendingDeletes[1].index + 1 < Len(tasks)

====
